---- MODULE Spec2Model ----
(***************************************************************************)
(* Model of the BHA rent-data scripts: the four ingestion pipelines        *)
(*   bha-payment-standards-future.py   (page scan, year tracking)          *)
(*   bha-2025-payment-standards.py     (fixed URL)                         *)
(*   bha-rent-data-integration.py      (page scan + rent estimator)        *)
(*   bha-data-integration.py           (CKAN catalog API)                  *)
(* sharing one data directory and one relational table 'rents'.            *)
(***************************************************************************)
EXTENDS Integers, Sequences, FiniteSets, Bags, TLC

VARIABLES
    script,     \* the script whose process is running ("none" between processes)
    pc,         \* position of the running process inside run_full_pipeline / main
    marker,     \* the file current_year.txt: [exists, text]
    rents,      \* the relational table 'rents', a bag of rows
    files,      \* names of the files present in data_dir (besides the marker)
    latest,     \* the selected candidate of this run: <<>> or <<candidate>>
    attempted,  \* destinations whose save_* method was called in this run
    dbOk,       \* return value of this run's save_to_database: "none", "true", "false"
    failed,     \* stages of this run that failed
    ret,        \* return value of run_full_pipeline: "none", "true", "false"
    exitCode,   \* exit code of the last finished process, -1 before the first exit
    runs,       \* number of processes started so far
    pre,        \* persisted state at the start of the running process
    page,       \* links of the scanned page handed to the locator under test
    http,       \* whether the page request of the locator under test succeeds
    found,      \* result of find_latest_payment_standards: <<>> or <<candidate>>
    picked,     \* result of get_latest_payment_standards: <<>> or <<candidate>>
    updates,    \* result of check_for_updates: "none", "true", "false"
    proc,       \* the 'future' processes that run at the same time, by name
    response,   \* answer of the catalog API handed to the catalog locator under test
    latest_csv  \* result of get_latest_csv_url: "unset" before the call, "" for None

vars == <<script, pc, marker, rents, files, latest, attempted, dbOk, failed,
          ret, exitCode, runs, pre, page, http, found, picked, updates, proc,
          response, latest_csv>>

pipeVars == <<script, pc, rents, files, latest, attempted, dbOk, failed,
              ret, exitCode, runs, pre>>

(***************************************************************************)
(* Bounds                                                                  *)
(***************************************************************************)
\* the years a link or the marker can name: 2024..MaxYear
MaxYear == 2025

\* the longest scanned page, in links
MaxLinks == 2

\* processes started in a behaviour of one script run repeatedly
MaxRuns == 2

\* processes started in a behaviour in which any of the four scripts runs
MaxMixedRuns == 1

Years == 2024..MaxYear

\* 0 stands for "no four-digit number in this part of the href"
YearOpt == {0} \cup Years

(***************************************************************************)
(* Text of a year: str(year) and int(text)                                 *)
(***************************************************************************)
Str(year) == ToString(year)

\* int(f.read().strip()) raises ValueError on text that is not a number
IsInt(text) == \E y \in Years : Str(y) = text

ParseInt(text) == CHOOSE y \in Years : Str(y) = text

(***************************************************************************)
(* Links of the Payment-Standards page.  A link is an href that matched    *)
(* the script's pdf pattern; dir is the first four-digit number of its     *)
(* directory part, file the first four-digit number of its filename.       *)
(***************************************************************************)
Links == [dir : YearOpt, file : YearOpt]

RECURSIVE SeqsUpTo(_, _)
SeqsUpTo(S, n) ==
    IF n = 0 THEN {<<>>}
    ELSE LET shorter == SeqsUpTo(S, n - 1)
         IN  shorter \cup {Append(s, x) : s \in {t \in shorter : Len(t) = n - 1}, x \in S}

Pages == SeqsUpTo(Links, MaxLinks)

\* match.split('/')[-1]
Filename(link) == [kind |-> "pdf", tag |-> IF link.file = 0 THEN "" ELSE Str(link.file)]

MinBy(seq, key) ==
    LET best[i \in 1..Len(seq)] ==
            IF i = 1 THEN 1
            ELSE IF key[i] < key[best[i - 1]] THEN i ELSE best[i - 1]
    IN  seq[best[Len(seq)]]

\* Python's max(seq, key=...) on a non-empty list, key[i] being the key of
\* seq[i]: the running best is replaced only by an element whose key is
\* strictly greater
MaxBy(seq, key) ==
    LET best[i \in 1..Len(seq)] ==
            IF i = 1 THEN 1
            ELSE IF key[i] > key[best[i - 1]] THEN i ELSE best[i - 1]
    IN  seq[best[Len(seq)]]

(***************************************************************************)
(* bha-payment-standards-future.py: find_latest_payment_standards          *)
(***************************************************************************)
\* re.search(r'(\d{4})', match) over the whole href
FutureYearMatch(link) == IF link.dir # 0 THEN link.dir ELSE link.file

RECURSIVE AvailableFiles(_)
AvailableFiles(matches) ==
    IF matches = <<>> THEN <<>>
    ELSE LET m == Head(matches)
             rest == AvailableFiles(Tail(matches))
         IN  IF FutureYearMatch(m) # 0
             THEN <<[url |-> m, year |-> FutureYearMatch(m), filename |-> Filename(m)]>> \o rest
             ELSE rest

\* key=lambda x: x['year'], the years being integers
YearKey(available_files) ==
    [i \in 1..Len(available_files) |-> available_files[i].year]

\* httpOk = FALSE: requests.get or raise_for_status raised
FindLatestPaymentStandards(httpOk, matches) ==
    IF ~httpOk THEN <<>>
    ELSE LET available_files == AvailableFiles(matches)
         IN  IF available_files = <<>> THEN <<>>
             ELSE <<MaxBy(available_files, YearKey(available_files))>>

(***************************************************************************)
(* bha-rent-data-integration.py: get_payment_standards_files,              *)
(* get_latest_payment_standards                                            *)
(***************************************************************************)
\* year_match.group(1) if year_match else 'Unknown', searched in the filename
RentYear(link) == IF link.file # 0 THEN Str(link.file) ELSE "Unknown"

RECURSIVE PdfLinks(_)
PdfLinks(matches) ==
    IF matches = <<>> THEN <<>>
    ELSE <<[url |-> Head(matches), year |-> RentYear(Head(matches)),
            filename |-> Filename(Head(matches))]>> \o PdfLinks(Tail(matches))

GetPaymentStandardsFiles(httpOk, matches) ==
    IF ~httpOk THEN <<>> ELSE PdfLinks(matches)

\* The place of a year string in Python's str order: two four-digit strings
\* compare as their numbers do, and 'Unknown' sorts after every digit string
StrRank(text) == IF text = "Unknown" THEN 10000 ELSE ParseInt(text)

\* key=lambda x: x['year'], the years being strings
YearStrKey(pdf_files) ==
    [i \in 1..Len(pdf_files) |-> StrRank(pdf_files[i].year)]

GetLatestPaymentStandards(httpOk, matches) ==
    LET pdf_files == GetPaymentStandardsFiles(httpOk, matches)
    IN  IF pdf_files = <<>> THEN <<>>
        ELSE <<MaxBy(pdf_files, YearStrKey(pdf_files))>>

\* Every result the locators can return, over all pages and request outcomes
FindLatestResults ==
    {FindLatestPaymentStandards(ok, matches) : ok \in BOOLEAN, matches \in Pages}

GetLatestResults ==
    {GetLatestPaymentStandards(ok, matches) : ok \in BOOLEAN, matches \in Pages}

(***************************************************************************)
(* bha-payment-standards-future.py: check_for_updates                      *)
(***************************************************************************)
NeedUpdateOrEqual(latest_year, current_year) == latest_year >= current_year

NeedUpdate(latest_year, current_year) == latest_year > current_year

CheckForUpdatesFailOpen(m, httpOk, matches) ==
    LET latest_file == FindLatestPaymentStandards(httpOk, matches)
    IN  IF latest_file = <<>> THEN FALSE
        ELSE IF ~(m.exists /\ IsInt(m.text)) THEN TRUE
        ELSE NeedUpdate(latest_file[1].year, ParseInt(m.text))

CheckForUpdates(m, httpOk, matches) ==
    IF m.exists /\ ~IsInt(m.text) THEN FALSE      \* int() raised, caught at line 258
    ELSE LET latest_file == FindLatestPaymentStandards(httpOk, matches)
         IN  IF latest_file = <<>> THEN FALSE
             ELSE IF ~m.exists THEN TRUE
             ELSE NeedUpdate(latest_file[1].year, ParseInt(m.text))

(***************************************************************************)
(* Rows of the table 'rents'.  A source label is kept as the sequence of   *)
(* its words (the text split at single spaces); a row is identified here   *)
(* by its source label and its zip code.                                   *)
(***************************************************************************)
\* f'BHA {year} Payment Standards'
YearLabel(year) == <<"BHA", Str(year), "Payment", "Standards">>

PlainLabel == <<"BHA", "Payment", "Standards">>

EstimatorLabel == <<"BHA", "Rent", "Estimator">>

CkanLabel == <<"BHA">>

Frame(label, zips) == {[source |-> label, zip_code |-> z] : z \in zips}

FutureZips == {"02108", "02109", "02110"}

\* rent_data of extract_rent_data_from_pdf plus the metadata columns
FutureFrame(year) == Frame(YearLabel(year), FutureZips)

Y2025Zips ==
    {"02351", "01720", "02743", "01913", "01810", "02474", "02476", "01721",
     "02703", "02322", "01432", "01730", "02019", "02478", "02779", "01915",
     "01821", "01740", "02109", "02134", "02116", "02108", "02135", "02129",
     "02111", "02122", "02124", "02125", "02121", "02199", "02128", "02115",
     "02110", "02163", "02136", "02130", "02215", "02126"}

Y2025Frame == Frame(YearLabel(2025), Y2025Zips)

RentZips == {"02108", "02109", "02110", "02111", "02113"}

RentPdfFrame == Frame(PlainLabel, RentZips)

EstimatorFrame == Frame(EstimatorLabel, RentZips)

\* zip_code column of a downloaded CSV whose rows are complete
CsvZips == {"02108", "02109"}

\* pd.read_csv of the resource at 'url': the rows of the file as published;
\* the file b.csv has a row whose zip_code cell is empty ("")
ReadCsv(url) == IF url = "b.csv" THEN CsvZips \cup {""} ELSE CsvZips

\* every row is kept and gets source = 'BHA'

TransformData(zips) == Frame(CkanLabel, zips)

\* source LIKE 'BHA % Payment Standards': 'BHA ', any text, ' Payment Standards'
LikeBHAPaymentStandards(label) ==
    /\ Len(label) >= 4
    /\ label[1] = "BHA"
    /\ label[Len(label) - 1] = "Payment"
    /\ label[Len(label)] = "Standards"

DeleteEverything(table) == EmptyBag

DeleteNothing(table) == table

\* DELETE FROM rents WHERE source LIKE 'BHA % Payment Standards'
DeleteBHA(table) ==
    [r \in {x \in DOMAIN table : ~LikeBHAPaymentStandards(x.source)} |-> table[r]]

ToSqlReplace(table, df) == SetToBag(df)

\* df.to_sql('rents', engine, if_exists='append')
ToSql(table, df) == table (+) SetToBag(df)

DbOutcomes == {"ok", "fail_connect", "fail_insert"}

FutureSaveToDatabaseAppend(table, df, outcome) ==
    IF outcome = "ok" THEN ToSql(table, df) ELSE table

\* save_to_database of the 'future' script: the delete is committed in its own
\* connection before the insert, so a failing insert leaves the rows deleted
FutureSaveToDatabase(table, df, outcome) ==
    IF outcome = "fail_connect" THEN table
    ELSE IF outcome = "fail_insert" THEN DeleteBHA(table)
    ELSE ToSql(DeleteBHA(table), df)

\* save_to_database of the other three scripts: append only
AppendSaveToDatabase(table, df, outcome) ==
    IF outcome = "ok" THEN ToSql(table, df) ELSE table

\* "true" / "false": the boolean save_to_database returns
DbReturn(outcome) == IF outcome = "ok" THEN "true" ELSE "false"

(***************************************************************************)
(* Files of data_dir                                                       *)
(***************************************************************************)
\* bha_{year}_payment_standards.csv / .json
YearCsv(year) == [kind |-> "csv", tag |-> Str(year)]

YearJson(year) == [kind |-> "json", tag |-> Str(year)]

\* 2025-Payment-Standards-All-BR.pdf
Y2025Pdf == [kind |-> "pdf", tag |-> "2025"]

\* bha_payment_standards.csv, bha_rent_estimator.csv
RentPdfCsv == [kind |-> "csv", tag |-> "payment_standards"]

EstimatorCsv == [kind |-> "csv", tag |-> "rent_estimator"]

\* bha_rent_data_{timestamp}.csv: the timestamp of the n-th process
TimestampCsv(n) == [kind |-> "csv", tag |-> "rent_data_" \o Str(n)]

NoMarker == [exists |-> FALSE, text |-> ""]

(***************************************************************************)
(* bha-data-integration.py: get_dataset_info, get_latest_csv_url           *)
(***************************************************************************)
Formats == {"CSV", "csv", "PDF"}

\* r.get("format", "").upper()
Upper(format) == IF format = "csv" THEN "CSV" ELSE format

\* created is the rank of the resource's 'created' string in string order,
\* 0 for a resource without one (the default "")
MaxCreated == 2

Resources == [format : Formats, created : 0..MaxCreated, url : {"", "a.csv", "b.csv"}]

MaxResources == 2

Responses == [http : BOOLEAN, success : BOOLEAN, resources : SeqsUpTo(Resources, MaxResources)]

GetDatasetInfoAnySuccess(resp) ==
    IF resp.http THEN resp.resources ELSE <<>>

\* {} for a failed request, success=false, or an empty result
GetDatasetInfo(resp) ==
    IF resp.http /\ resp.success THEN resp.resources ELSE <<>>

\* key=lambda x: x.get("created", "")
CreatedKey(csv_resources) ==
    [i \in 1..Len(csv_resources) |-> csv_resources[i].created]

\* "" stands for None as well: both are falsy to the caller
GetLatestCsvUrl(resp) ==
    LET resources == GetDatasetInfo(resp)
        csv_resources == SelectSeq(resources, LAMBDA r : Upper(r.format) = "CSV")
    IN  IF resources = <<>> THEN ""
        ELSE IF csv_resources = <<>> THEN ""
        ELSE MaxBy(csv_resources, CreatedKey(csv_resources)).url

\* no request made
NoResponse == [http |-> FALSE, success |-> FALSE, resources |-> <<>>]

GetLatestCsvUrlResults == {GetLatestCsvUrl(resp) : resp \in Responses}

(***************************************************************************)
(* Process start and exit (main of each script)                            *)
(***************************************************************************)
Scripts == {"future", "y2025", "rent", "ckan"}

FirstStage(s) == IF s = "y2025" THEN "download" ELSE "locate"

\* the candidate whose rows the previous process had stored when it was killed
Interrupted == IF "crash" \in failed /\ dbOk = "true" THEN latest ELSE <<>>

\* what a starting process finds
\* two processes of bha-payment-standards-future.py started at the same time
\* (overlapping schedules, a manual run during a scheduled one)
Procs == {"a", "b"}

\* a process: its position, its candidate, the return value of its
\* save_to_database, and whether its DELETE ran between the DELETE and the
\* INSERT of the other process
NotStarted ==
    [p \in Procs |-> [pc |-> "start", latest |-> <<>>, dbOk |-> "none",
                      interleaved |-> FALSE]]

Persisted ==
    [marker |-> marker, rents |-> rents, files |-> files, interrupted |-> Interrupted]

Init ==
    /\ script = "none"
    /\ pc = "idle"
    /\ marker = NoMarker
    /\ rents = EmptyBag
    /\ files = {}
    /\ latest = <<>>
    /\ attempted = {}
    /\ dbOk = "none"
    /\ failed = {}
    /\ ret = "none"
    /\ exitCode = -1
    /\ runs = 0
    /\ pre = [marker |-> NoMarker, rents |-> EmptyBag, files |-> {}, interrupted |-> <<>>]
    /\ page = <<>>
    /\ http = TRUE
    /\ found = <<>>
    /\ picked = <<>>
    /\ updates = "none"
    /\ proc = NotStarted
    /\ response = NoResponse
    /\ latest_csv = "unset"

fnVars == <<page, http, found, picked, updates, proc, response, latest_csv>>

\* python3 <script>: main() constructs the class and calls run_full_pipeline
Start(s, limit) ==
    /\ pc = "idle"
    /\ runs < limit
    /\ script' = s
    /\ pc' = FirstStage(s)
    /\ runs' = runs + 1
    /\ pre' = Persisted
    /\ latest' = <<>>
    /\ attempted' = {}
    /\ dbOk' = "none"
    /\ failed' = {}
    /\ ret' = "none"
    /\ UNCHANGED <<marker, rents, files, exitCode>>
    /\ UNCHANGED fnVars

\* main: exit(0) if success else exit(1)
ExitCodeOf(success) == IF success = "true" THEN 0 ELSE 1

\* 'return value' inside run_full_pipeline; main exits on it at once
Return(value) ==
    /\ ret' = value
    /\ exitCode' = ExitCodeOf(value)
    /\ pc' = "idle"

GotoWithRetry(stage) ==
    /\ pc' = IF stage = "extract" THEN "locate" ELSE stage
    /\ UNCHANGED <<ret, exitCode>>

\* run_full_pipeline goes on to its next statement
Goto(stage) ==
    /\ pc' = stage
    /\ UNCHANGED <<ret, exitCode>>

AbortUncaught(stage) ==
    /\ failed' = failed \cup {stage}
    /\ pc' = "idle"
    /\ UNCHANGED <<ret, exitCode>>

\* A stage failed: 'return False' (also the pipeline-level except clause)
Abort(stage) ==
    /\ failed' = failed \cup {stage}
    /\ Return("false")

\* save_to_csv / save_to_json catch every exception of the write and return "",
\* so the caller continues whatever the outcome of the write
SaveReturnsOnlyIfOk(ok) == ok

SaveReturns(ok) == TRUE

(***************************************************************************)
(* bha-payment-standards-future.py: run_full_pipeline                      *)
(***************************************************************************)
Year == latest[1].year

\* latest_file = self.find_latest_payment_standards(), one of 'results'
FutureLocateFrom(results) ==
    /\ script = "future" /\ pc = "locate"
    /\ \E latest_file \in results :
            /\ latest' = latest_file
            /\ IF latest_file = <<>>
               THEN Abort("discovery")
               ELSE Goto("download") /\ UNCHANGED failed
    /\ UNCHANGED <<script, marker, rents, files, attempted, dbOk, runs, pre>>
    /\ UNCHANGED fnVars

\* the page and the outcome of the request are any the bounds allow
FutureLocate == FutureLocateFrom(FindLatestResults)

\* download_payment_standards_pdf
FutureDownload ==
    /\ script = "future" /\ pc = "download"
    /\ \E ok \in BOOLEAN :
        IF ok
        THEN /\ files' = files \cup {latest[1].filename}
             /\ Goto("extract")
             /\ UNCHANGED failed
        ELSE /\ Abort("fetch")
             /\ UNCHANGED files
    /\ UNCHANGED <<script, marker, rents, latest, attempted, dbOk, runs, pre>>
    /\ UNCHANGED fnVars

\* extract_rent_data_from_pdf
FutureExtract ==
    /\ script = "future" /\ pc = "extract"
    /\ \E ok \in BOOLEAN :
        IF ok
        THEN Goto("save_csv") /\ UNCHANGED failed
        ELSE Abort("extract")
    /\ UNCHANGED <<script, marker, rents, files, latest, attempted, dbOk, runs, pre>>
    /\ UNCHANGED fnVars

\* save_to_csv(rent_data, year)
FutureSaveCsv ==
    /\ script = "future" /\ pc = "save_csv"
    /\ \E ok \in BOOLEAN :
        /\ files' = IF ok THEN files \cup {YearCsv(Year)} ELSE files
        /\ IF SaveReturns(ok)
           THEN Goto("save_json") /\ UNCHANGED failed
           ELSE Abort("csv")
    /\ attempted' = attempted \cup {"csv"}
    /\ UNCHANGED <<script, marker, rents, latest, dbOk, runs, pre>>
    /\ UNCHANGED fnVars

\* save_to_json(rent_data, year)
FutureSaveJson ==
    /\ script = "future" /\ pc = "save_json"
    /\ \E ok \in BOOLEAN :
        /\ files' = IF ok THEN files \cup {YearJson(Year)} ELSE files
        /\ IF SaveReturns(ok)
           THEN Goto("save_db") /\ UNCHANGED failed
           ELSE Abort("json")
    /\ attempted' = attempted \cup {"json"}
    /\ UNCHANGED <<script, marker, rents, latest, dbOk, runs, pre>>
    /\ UNCHANGED fnVars

\* save_to_database(rent_data); its return value is dropped by the caller
FutureSaveDb ==
    /\ script = "future" /\ pc = "save_db"
    /\ \E outcome \in DbOutcomes :
        /\ rents' = FutureSaveToDatabase(rents, FutureFrame(Year), outcome)
        /\ dbOk' = DbReturn(outcome)
        /\ failed' = IF outcome = "ok" THEN failed ELSE failed \cup {"db"}
    /\ attempted' = attempted \cup {"db"}
    /\ Goto("mark")
    /\ UNCHANGED <<script, marker, files, latest, runs, pre>>
    /\ UNCHANGED fnVars

MarkOutcomes == {"ok", "fail_open", "fail_write"}

\* with open(current_year_file, 'w') as f: f.write(str(year)).  open('w')
\* truncates the file, so a write that fails leaves it empty.
WriteMarker(m, year, outcome) ==
    IF outcome = "ok" THEN [exists |-> TRUE, text |-> Str(year)]
    ELSE IF outcome = "fail_write" THEN [exists |-> TRUE, text |-> ""]
    ELSE m

FutureMark ==
    /\ script = "future" /\ pc = "mark"
    /\ \E outcome \in MarkOutcomes :
        /\ marker' = WriteMarker(marker, Year, outcome)
        /\ IF outcome = "ok"
           THEN Return("true") /\ UNCHANGED failed
           ELSE Abort("marker")
    /\ UNCHANGED <<script, rents, files, latest, attempted, dbOk, runs, pre>>
    /\ UNCHANGED fnVars

(***************************************************************************)
(* bha-2025-payment-standards.py: run_full_pipeline                        *)
(***************************************************************************)
Y2025Download ==
    /\ script = "y2025" /\ pc = "download"
    /\ \E ok \in BOOLEAN :
        IF ok
        THEN /\ files' = files \cup {Y2025Pdf}
             /\ Goto("extract")
             /\ UNCHANGED failed
        ELSE /\ Abort("fetch")
             /\ UNCHANGED files
    /\ UNCHANGED <<script, marker, rents, latest, attempted, dbOk, runs, pre>>
    /\ UNCHANGED fnVars

Y2025Extract ==
    /\ script = "y2025" /\ pc = "extract"
    /\ \E ok \in BOOLEAN :
        IF ok
        THEN Goto("save_csv") /\ UNCHANGED failed
        ELSE Abort("extract")
    /\ UNCHANGED <<script, marker, rents, files, latest, attempted, dbOk, runs, pre>>
    /\ UNCHANGED fnVars

Y2025SaveCsv ==
    /\ script = "y2025" /\ pc = "save_csv"
    /\ \E ok \in BOOLEAN :
        /\ files' = IF ok THEN files \cup {YearCsv(2025)} ELSE files
        /\ IF SaveReturns(ok)
           THEN Goto("save_json") /\ UNCHANGED failed
           ELSE Abort("csv")
    /\ attempted' = attempted \cup {"csv"}
    /\ UNCHANGED <<script, marker, rents, latest, dbOk, runs, pre>>
    /\ UNCHANGED fnVars

Y2025SaveJson ==
    /\ script = "y2025" /\ pc = "save_json"
    /\ \E ok \in BOOLEAN :
        /\ files' = IF ok THEN files \cup {YearJson(2025)} ELSE files
        /\ IF SaveReturns(ok)
           THEN Goto("save_db") /\ UNCHANGED failed
           ELSE Abort("json")
    /\ attempted' = attempted \cup {"json"}
    /\ UNCHANGED <<script, marker, rents, latest, dbOk, runs, pre>>
    /\ UNCHANGED fnVars

\* save_to_database(rent_data), return value dropped, then 'return True'
Y2025SaveDb ==
    /\ script = "y2025" /\ pc = "save_db"
    /\ \E outcome \in DbOutcomes :
        /\ rents' = AppendSaveToDatabase(rents, Y2025Frame, outcome)
        /\ dbOk' = DbReturn(outcome)
        /\ failed' = IF outcome = "ok" THEN failed ELSE failed \cup {"db"}
    /\ attempted' = attempted \cup {"db"}
    /\ Return("true")
    /\ UNCHANGED <<script, marker, files, latest, runs, pre>>
    /\ UNCHANGED fnVars

(***************************************************************************)
(* bha-rent-data-integration.py: run_full_pipeline                         *)
(***************************************************************************)
\* get_latest_payment_standards; without a url the pipeline goes on to the
\* rent estimator
RentLocate ==
    /\ script = "rent" /\ pc = "locate"
    /\ \E latest_file \in GetLatestResults :
            /\ latest' = latest_file
            /\ IF latest_file = <<>>
               THEN Goto("estimator") /\ failed' = failed \cup {"discovery"}
               ELSE Goto("download") /\ UNCHANGED failed
    /\ UNCHANGED <<script, marker, rents, files, attempted, dbOk, runs, pre>>
    /\ UNCHANGED fnVars

\* download_payment_standards(latest_pdf_url)
RentDownload ==
    /\ script = "rent" /\ pc = "download"
    /\ \E ok \in BOOLEAN :
        IF ok
        THEN /\ files' = files \cup {latest[1].filename}
             /\ Goto("extract")
             /\ UNCHANGED failed
        ELSE /\ Goto("estimator")
             /\ failed' = failed \cup {"fetch"}
             /\ UNCHANGED files
    /\ UNCHANGED <<script, marker, rents, latest, attempted, dbOk, runs, pre>>
    /\ UNCHANGED fnVars

RentExtract ==
    /\ script = "rent" /\ pc = "extract"
    /\ \E ok \in BOOLEAN :
        IF ok
        THEN Goto("save_csv") /\ UNCHANGED failed
        ELSE Goto("estimator") /\ failed' = failed \cup {"extract"}
    /\ UNCHANGED <<script, marker, rents, files, latest, attempted, dbOk, runs, pre>>
    /\ UNCHANGED fnVars

\* save_to_csv(pdf_data, "bha_payment_standards.csv")
RentSaveCsv ==
    /\ script = "rent" /\ pc = "save_csv"
    /\ \E ok \in BOOLEAN :
        /\ files' = IF ok THEN files \cup {RentPdfCsv} ELSE files
        /\ IF SaveReturns(ok)
           THEN Goto("save_db") /\ UNCHANGED failed
           ELSE Abort("csv")
    /\ attempted' = attempted \cup {"csv"}
    /\ UNCHANGED <<script, marker, rents, latest, dbOk, runs, pre>>
    /\ UNCHANGED fnVars

\* save_to_database(pdf_data)
RentSaveDb ==
    /\ script = "rent" /\ pc = "save_db"
    /\ \E outcome \in DbOutcomes :
        /\ rents' = AppendSaveToDatabase(rents, RentPdfFrame, outcome)
        /\ dbOk' = DbReturn(outcome)
        /\ failed' = IF outcome = "ok" THEN failed ELSE failed \cup {"db"}
    /\ attempted' = attempted \cup {"db"}
    /\ Goto("estimator")
    /\ UNCHANGED <<script, marker, files, latest, runs, pre>>
    /\ UNCHANGED fnVars

\* get_rent_estimator_data; None ends the pipeline with 'return True'
RentEstimator ==
    /\ script = "rent" /\ pc = "estimator"
    /\ \E ok \in BOOLEAN :
        IF ok
        THEN Goto("est_csv") /\ UNCHANGED failed
        ELSE /\ failed' = failed \cup {"estimator"}
             /\ Return("true")
    /\ UNCHANGED <<script, marker, rents, files, latest, attempted, dbOk, runs, pre>>
    /\ UNCHANGED fnVars

\* save_to_csv(estimator_data, "bha_rent_estimator.csv")
RentEstSaveCsv ==
    /\ script = "rent" /\ pc = "est_csv"
    /\ \E ok \in BOOLEAN :
        /\ files' = IF ok THEN files \cup {EstimatorCsv} ELSE files
        /\ IF SaveReturns(ok)
           THEN Goto("est_db") /\ UNCHANGED failed
           ELSE Abort("est_csv")
    /\ attempted' = attempted \cup {"est_csv"}
    /\ UNCHANGED <<script, marker, rents, latest, dbOk, runs, pre>>
    /\ UNCHANGED fnVars

\* save_to_database(estimator_data), then 'return True'
RentEstSaveDb ==
    /\ script = "rent" /\ pc = "est_db"
    /\ \E outcome \in DbOutcomes :
        /\ rents' = AppendSaveToDatabase(rents, EstimatorFrame, outcome)
        /\ dbOk' = IF dbOk = "false" THEN "false" ELSE DbReturn(outcome)
        /\ failed' = IF outcome = "ok" THEN failed ELSE failed \cup {"db"}
    /\ attempted' = attempted \cup {"est_db"}
    /\ Return("true")
    /\ UNCHANGED <<script, marker, files, latest, runs, pre>>
    /\ UNCHANGED fnVars

(***************************************************************************)
(* bha-data-integration.py: run_full_pipeline                              *)
(***************************************************************************)
CkanLocate ==
    /\ script = "ckan" /\ pc = "locate"
    /\ \E csv_url \in GetLatestCsvUrlResults :
            IF csv_url = ""
            THEN Abort("discovery") /\ UNCHANGED latest
            ELSE /\ latest' = <<[url |-> csv_url]>>
                 /\ Goto("download")
                 /\ UNCHANGED failed
    /\ UNCHANGED <<script, marker, rents, files, attempted, dbOk, runs, pre>>
    /\ UNCHANGED fnVars

\* download_csv_data(csv_url): the parsed frame or None
CkanDownload ==
    /\ script = "ckan" /\ pc = "download"
    /\ \E ok \in BOOLEAN :
        IF ok
        THEN Goto("save_csv") /\ UNCHANGED failed
        ELSE Abort("fetch")
    /\ UNCHANGED <<script, marker, rents, files, latest, attempted, dbOk, runs, pre>>
    /\ UNCHANGED fnVars

\* transform_data(df), then save_to_csv(transformed_df) under a timestamped name
CkanSaveCsv ==
    /\ script = "ckan" /\ pc = "save_csv"
    /\ \E ok \in BOOLEAN :
        /\ files' = IF ok THEN files \cup {TimestampCsv(runs)} ELSE files
        /\ IF SaveReturns(ok)
           THEN Goto("save_db") /\ UNCHANGED failed
           ELSE Abort("csv")
    /\ attempted' = attempted \cup {"csv"}
    /\ UNCHANGED <<script, marker, rents, latest, dbOk, runs, pre>>
    /\ UNCHANGED fnVars

\* db_success = save_to_database(transformed_df); return db_success
CkanSaveDb ==
    /\ script = "ckan" /\ pc = "save_db"
    /\ \E outcome \in DbOutcomes :
        /\ rents' = AppendSaveToDatabase(rents, TransformData(ReadCsv(latest[1].url)), outcome)
        /\ dbOk' = DbReturn(outcome)
        /\ failed' = IF outcome = "ok" THEN failed ELSE failed \cup {"db"}
        /\ Return(DbReturn(outcome))
    /\ attempted' = attempted \cup {"db"}
    /\ UNCHANGED <<script, marker, files, latest, runs, pre>>
    /\ UNCHANGED fnVars

StartAny == \E s \in Scripts : Start(s, MaxMixedRuns)

Next ==
    \/ StartAny
    \/ FutureLocate
    \/ FutureDownload
    \/ FutureExtract
    \/ FutureSaveCsv
    \/ FutureSaveJson
    \/ FutureSaveDb
    \/ FutureMark
    \/ Y2025Download
    \/ Y2025Extract
    \/ Y2025SaveCsv
    \/ Y2025SaveJson
    \/ Y2025SaveDb
    \/ RentLocate
    \/ RentDownload
    \/ RentExtract
    \/ RentSaveCsv
    \/ RentSaveDb
    \/ RentEstimator
    \/ RentEstSaveCsv
    \/ RentEstSaveDb
    \/ CkanLocate
    \/ CkanDownload
    \/ CkanSaveCsv
    \/ CkanSaveDb

Spec == Init /\ [][Next]_vars

(***************************************************************************)
(* Each script on its own, run repeatedly                                  *)
(***************************************************************************)
StartFuture == Start("future", MaxRuns)

NextFuture ==
    \/ StartFuture
    \/ FutureLocate
    \/ FutureDownload
    \/ FutureExtract
    \/ FutureSaveCsv
    \/ FutureSaveJson
    \/ FutureSaveDb
    \/ FutureMark

SpecFuture == Init /\ [][NextFuture]_vars

\* The process is killed (SIGKILL, power loss) after save_to_database has
\* returned and before current_year.txt is opened: nothing is written, main
\* produces no exit code.
FutureCrash ==
    /\ script = "future" /\ pc = "mark"
    /\ pc' = "idle"
    /\ failed' = failed \cup {"crash"}
    /\ UNCHANGED <<script, marker, rents, files, latest, attempted, dbOk, ret,
                   exitCode, runs, pre>>
    /\ UNCHANGED fnVars

\* the first process, and the restart of a process that was killed
StartAfterCrash ==
    /\ runs = 0 \/ "crash" \in failed
    /\ Start("future", MaxRuns)

NextFutureCrash ==
    \/ StartAfterCrash
    \/ FutureLocate
    \/ FutureDownload
    \/ FutureExtract
    \/ FutureSaveCsv
    \/ FutureSaveJson
    \/ FutureSaveDb
    \/ FutureMark
    \/ FutureCrash

SpecFutureCrash == Init /\ [][NextFutureCrash]_vars

StartY2025 == Start("y2025", MaxRuns)

NextY2025 ==
    \/ StartY2025
    \/ Y2025Download
    \/ Y2025Extract
    \/ Y2025SaveCsv
    \/ Y2025SaveJson
    \/ Y2025SaveDb

SpecY2025 == Init /\ [][NextY2025]_vars

StartRent == Start("rent", MaxRuns)

NextRent ==
    \/ StartRent
    \/ RentLocate
    \/ RentDownload
    \/ RentExtract
    \/ RentSaveCsv
    \/ RentSaveDb
    \/ RentEstimator
    \/ RentEstSaveCsv
    \/ RentEstSaveDb

SpecRent == Init /\ [][NextRent]_vars

StartCkan == Start("ckan", MaxRuns)

NextCkan ==
    \/ StartCkan
    \/ CkanLocate
    \/ CkanDownload
    \/ CkanSaveCsv
    \/ CkanSaveDb

SpecCkan == Init /\ [][NextCkan]_vars

(***************************************************************************)
(* Two processes of bha-payment-standards-future.py at the same time.  The *)
(* statements of save_to_database are the steps that interleave on the     *)
(* table: the committed DELETE and the to_sql insert.                      *)
(***************************************************************************)
Other(p) == CHOOSE q \in Procs : q # p

PrepareOutcomes == {"fail_fetch", "fail_extract", "ok"}

\* what find_latest_payment_standards returns to a process: the page request
\* fails, or the page links to the document of one year
ConcurrentResults ==
    {FindLatestPaymentStandards(ok, <<[dir |-> 0, file |-> y]>>) : ok \in BOOLEAN, y \in Years}

\* run_full_pipeline up to save_to_database: locate, download, extract,
\* save_to_csv, save_to_json.  These stages touch neither the table nor the
\* marker; a failed locate, download or extract ends the process.
ConcPrepare(p) ==
    /\ proc[p].pc = "start"
    /\ \E latest_file \in ConcurrentResults, outcome \in PrepareOutcomes,
          okCsv \in BOOLEAN, okJson \in BOOLEAN :
        IF latest_file = <<>>
        THEN /\ proc' = [proc EXCEPT ![p].pc = "done"]
             /\ UNCHANGED files
        ELSE /\ proc' = [proc EXCEPT ![p].latest = latest_file,
                                     ![p].pc = IF outcome = "ok" THEN "delete" ELSE "done"]
             /\ files' = files
                  \cup (IF outcome = "fail_fetch" THEN {} ELSE {latest_file[1].filename})
                  \cup (IF outcome = "ok" /\ okCsv THEN {YearCsv(latest_file[1].year)} ELSE {})
                  \cup (IF outcome = "ok" /\ okJson THEN {YearJson(latest_file[1].year)} ELSE {})
    /\ UNCHANGED <<script, pc, marker, rents, latest, attempted, dbOk, failed,
                   ret, exitCode, runs, pre, page, http, found, picked, updates,
                   response, latest_csv>>

\* save_to_database: the DELETE and its commit; an exception (no connection,
\* failed statement) makes save_to_database return False
ConcDelete(p) ==
    /\ proc[p].pc = "delete"
    /\ \E ok \in BOOLEAN :
        IF ok
        THEN /\ rents' = DeleteBHA(rents)
             /\ proc' = [proc EXCEPT ![p].pc = "insert",
                                     ![p].interleaved = (proc[Other(p)].pc = "insert")]
        ELSE /\ proc' = [proc EXCEPT ![p].pc = "mark", ![p].dbOk = "false"]
             /\ UNCHANGED rents
    /\ UNCHANGED <<script, pc, marker, files, latest, attempted, dbOk, failed,
                   ret, exitCode, runs, pre, page, http, found, picked, updates,
                   response, latest_csv>>

\* save_to_database: df.to_sql and the return
ConcInsert(p) ==
    /\ proc[p].pc = "insert"
    /\ \E ok \in BOOLEAN :
        /\ rents' = IF ok THEN ToSql(rents, FutureFrame(proc[p].latest[1].year)) ELSE rents
        /\ proc' = [proc EXCEPT ![p].pc = "mark", ![p].dbOk = IF ok THEN "true" ELSE "false"]
    /\ UNCHANGED <<script, pc, marker, files, latest, attempted, dbOk, failed,
                   ret, exitCode, runs, pre, page, http, found, picked, updates,
                   response, latest_csv>>

\* the marker write and the return of run_full_pipeline
ConcMark(p) ==
    /\ proc[p].pc = "mark"
    /\ \E outcome \in MarkOutcomes :
        marker' = WriteMarker(marker, proc[p].latest[1].year, outcome)
    /\ proc' = [proc EXCEPT ![p].pc = "done"]
    /\ UNCHANGED <<script, pc, rents, files, latest, attempted, dbOk, failed,
                   ret, exitCode, runs, pre, page, http, found, picked, updates,
                   response, latest_csv>>

\* the table and the marker an earlier run of the script left, if there was one
InitConcurrent ==
    /\ script = "none"
    /\ pc = "idle"
    /\ \E prior \in {0} \cup Years :
        /\ marker \in {NoMarker} \cup (IF prior = 0 THEN {} ELSE {[exists |-> TRUE, text |-> Str(prior)]})
        /\ rents = IF prior = 0 THEN EmptyBag ELSE SetToBag(FutureFrame(prior))
    /\ files = {}
    /\ latest = <<>>
    /\ attempted = {}
    /\ dbOk = "none"
    /\ failed = {}
    /\ ret = "none"
    /\ exitCode = -1
    /\ runs = 0
    /\ pre = [marker |-> marker, rents |-> rents, files |-> {}, interrupted |-> <<>>]
    /\ page = <<>>
    /\ http = TRUE
    /\ found = <<>>
    /\ picked = <<>>
    /\ updates = "none"
    /\ proc = NotStarted
    /\ response = NoResponse
    /\ latest_csv = "unset"

NextConcurrent ==
    \/ \E p \in Procs : ConcPrepare(p)
    \/ \E p \in Procs : ConcDelete(p)
    \/ \E p \in Procs : ConcInsert(p)
    \/ \E p \in Procs : ConcMark(p)

SpecConcurrent == InitConcurrent /\ [][NextConcurrent]_vars

(***************************************************************************)
(* The locators and the update gate on their own: the page, the outcome of *)
(* the page request and the marker file are the inputs.                    *)
(***************************************************************************)
MarkerFiles ==
    {NoMarker} \cup {[exists |-> TRUE, text |-> t] : t \in {Str(y) : y \in Years} \cup {""}}

InitLocator ==
    /\ script = "none"
    /\ pc = "idle"
    /\ marker \in MarkerFiles
    /\ rents = EmptyBag
    /\ files = {}
    /\ latest = <<>>
    /\ attempted = {}
    /\ dbOk = "none"
    /\ failed = {}
    /\ ret = "none"
    /\ exitCode = -1
    /\ runs = 0
    /\ pre = [marker |-> marker, rents |-> EmptyBag, files |-> {}, interrupted |-> <<>>]
    /\ page \in Pages
    /\ http \in BOOLEAN
    /\ found = <<>>
    /\ picked = <<>>
    /\ updates = "none"
    /\ proc = NotStarted
    /\ response = NoResponse
    /\ latest_csv = "unset"

CallFindLatest ==
    /\ found' = FindLatestPaymentStandards(http, page)
    /\ UNCHANGED <<marker, page, http, picked, updates, proc, response, latest_csv>>
    /\ UNCHANGED pipeVars

CallGetLatest ==
    /\ picked' = GetLatestPaymentStandards(http, page)
    /\ UNCHANGED <<marker, page, http, found, updates, proc, response, latest_csv>>
    /\ UNCHANGED pipeVars

CallCheckForUpdates ==
    /\ updates' = IF CheckForUpdates(marker, http, page) THEN "true" ELSE "false"
    /\ UNCHANGED <<marker, page, http, found, picked, proc, response, latest_csv>>
    /\ UNCHANGED pipeVars

NextLocator ==
    \/ CallFindLatest
    \/ CallGetLatest
    \/ CallCheckForUpdates

SpecLocator == InitLocator /\ [][NextLocator]_vars

(***************************************************************************)
(* One run of bha-payment-standards-future.py on a given page, with no     *)
(* marker yet; the locator and the gate are also called on that page       *)
(* before the run.                                                         *)
(***************************************************************************)
InitScenario == InitLocator /\ marker = NoMarker

StartScenario == Start("future", 1)

\* find_latest_payment_standards scans the page of the scenario
FutureLocatePage == FutureLocateFrom({FindLatestPaymentStandards(http, page)})

NextScenario ==
    \/ runs = 0 /\ CallFindLatest
    \/ runs = 0 /\ CallCheckForUpdates
    \/ StartScenario
    \/ FutureLocatePage
    \/ FutureDownload
    \/ FutureExtract
    \/ FutureSaveCsv
    \/ FutureSaveJson
    \/ FutureSaveDb
    \/ FutureMark

SpecScenario == InitScenario /\ [][NextScenario]_vars

(***************************************************************************)
(* bha-payment-standards-future.py run repeatedly on a rents table that    *)
(* the other three scripts have written to before; each scanned page links *)
(* to the document of one year.                                            *)
(***************************************************************************)
\* the rows of one successful run of the rent-data script and of the catalog
\* script, without and with the rows of one run of the 2025 script
OtherScriptsRows ==
    SetToBag(RentPdfFrame) (+) SetToBag(EstimatorFrame) (+) SetToBag(TransformData(CsvZips))

TablesOfOtherScripts ==
    {EmptyBag, OtherScriptsRows, OtherScriptsRows (+) SetToBag(Y2025Frame)}

InitTable ==
    /\ script = "none"
    /\ pc = "idle"
    /\ marker = NoMarker
    /\ rents \in TablesOfOtherScripts
    /\ files = {}
    /\ latest = <<>>
    /\ attempted = {}
    /\ dbOk = "none"
    /\ failed = {}
    /\ ret = "none"
    /\ exitCode = -1
    /\ runs = 0
    /\ pre = [marker |-> NoMarker, rents |-> rents, files |-> {}, interrupted |-> <<>>]
    /\ page = <<>>
    /\ http = TRUE
    /\ found = <<>>
    /\ picked = <<>>
    /\ updates = "none"
    /\ proc = NotStarted
    /\ response = NoResponse
    /\ latest_csv = "unset"

FutureLocateOneLink == FutureLocateFrom(ConcurrentResults)

NextTable ==
    \/ StartFuture
    \/ FutureLocateOneLink
    \/ FutureDownload
    \/ FutureExtract
    \/ FutureSaveCsv
    \/ FutureSaveJson
    \/ FutureSaveDb
    \/ FutureMark

SpecTable == InitTable /\ [][NextTable]_vars

(***************************************************************************)
(* The catalog locator on its own: the answer of the package_show request  *)
(* is the input.                                                           *)
(***************************************************************************)
InitCatalog ==
    /\ script = "none"
    /\ pc = "idle"
    /\ marker = NoMarker
    /\ rents = EmptyBag
    /\ files = {}
    /\ latest = <<>>
    /\ attempted = {}
    /\ dbOk = "none"
    /\ failed = {}
    /\ ret = "none"
    /\ exitCode = -1
    /\ runs = 0
    /\ pre = [marker |-> NoMarker, rents |-> EmptyBag, files |-> {}, interrupted |-> <<>>]
    /\ page = <<>>
    /\ http = TRUE
    /\ found = <<>>
    /\ picked = <<>>
    /\ updates = "none"
    /\ proc = NotStarted
    /\ response \in Responses
    /\ latest_csv = "unset"

CallGetLatestCsvUrl ==
    /\ latest_csv' = GetLatestCsvUrl(response)
    /\ UNCHANGED <<marker, page, http, found, picked, updates, proc, response>>
    /\ UNCHANGED pipeVars

NextCatalog == CallGetLatestCsvUrl

SpecCatalog == InitCatalog /\ [][NextCatalog]_vars

(***************************************************************************)
(* Properties                                                              *)
(***************************************************************************)
Readable(m) == m.exists /\ IsInt(m.text)

\* a process of some script has run to its exit
RunEnded == pc = "idle" /\ script # "none"

FutureRunEnded == RunEnded /\ script = "future"

\* C1: in the 'future' pipeline the marker is written with a year only in a
\* run whose save_to_database succeeded: a step that completes the marker
\* write is taken only when this run's relational write returned True.
C1_MarkerOnlyAfterStore ==
    [][(script = "future" /\ pc = "mark" /\ Readable(marker') /\ ret' = "true")
         => dbOk = "true"]_vars

\* C2: a successful run of the 'future' pipeline never lowers the marker:
\* the year it holds after the run is at least the year it held before.
C2_MarkerNeverDecreases ==
    (FutureRunEnded /\ ret = "true" /\ Readable(pre.marker) /\ Readable(marker))
        => ParseInt(marker.text) >= ParseInt(pre.marker.text)

\* the links of a page in which find_latest_payment_standards finds a year
DatedLinks(matches) ==
    {matches[i] : i \in {j \in 1..Len(matches) : FutureYearMatch(matches[j]) # 0}}

SetMax(S) == CHOOSE x \in S : \A y \in S : y <= x

BestYear(matches) == SetMax({FutureYearMatch(l) : l \in DatedLinks(matches)})

GateHasCandidate == http /\ DatedLinks(page) # {}

\* C3: check_for_updates, given a best candidate, answers True when there is
\* no marker, and with a marker answers True exactly when the best
\* candidate's year is strictly greater than the marker's year.
C3_GateStrictlyGreater ==
    (updates # "none" /\ GateHasCandidate /\ (marker.exists => IsInt(marker.text)))
        => (updates = "true"
              <=> (~marker.exists \/ BestYear(page) > ParseInt(marker.text)))

\* C3 witness: the gate was asked with a marker equal to the best year and said no
C3_Witness ==
    /\ updates = "false"
    /\ GateHasCandidate
    /\ Readable(marker)
    /\ BestYear(page) = ParseInt(marker.text)

\* C4: a 'future' run that finds the marker already at or beyond the best
\* candidate's year ends with success and writes nothing: files, table and
\* marker are as they were when the run started.
C4_CurrentRunWritesNothing ==
    (FutureRunEnded /\ latest # <<>> /\ Readable(pre.marker)
        /\ ParseInt(pre.marker.text) >= Year)
        => (ret = "true" /\ files = pre.files /\ rents = pre.rents
              /\ marker = pre.marker)

\* the first position of the candidates whose year no candidate exceeds and
\* no earlier candidate equals; a candidate of unknown year is below the rest
KnownYear(c) == c.year # "Unknown"

\* recency[i] is the year of cands[i] as a number
FirstOfMaximum(result, cands, recency) ==
    \E i \in 1..Len(cands) :
        /\ result = cands[i]
        /\ \A j \in 1..Len(cands) : recency[j] <= recency[i]
        /\ \A j \in 1..(i - 1) : cands[j].year # cands[i].year

\* the year of each candidate of the rent-data script, 0 for an unknown year
RentRecency(cands) ==
    [i \in 1..Len(cands) |-> IF KnownYear(cands[i]) THEN ParseInt(cands[i].year) ELSE 0]

\* C5: both selections return, from a non-empty list of candidates, the first
\* of the candidates whose year is the greatest of the list.
C5_SelectsFirstMaximum ==
    /\ found # <<>> => FirstOfMaximum(found[1], AvailableFiles(page), YearKey(AvailableFiles(page)))
    /\ picked # <<>> => FirstOfMaximum(picked[1], PdfLinks(page), RentRecency(PdfLinks(page)))

\* C6: neither selection returns a link in which it found no year while the
\* page holds a link in which it did.
C6_UndatedNeverSelected ==
    /\ (found # <<>> /\ DatedLinks(page) # {}) => FutureYearMatch(found[1].url) # 0
    /\ (picked # <<>> /\ \E i \in 1..Len(page) : page[i].file # 0)
          => picked[1].url.file # 0

\* the records this run handed to its successful save_to_database calls
WrittenFrame ==
    IF script = "future" THEN FutureFrame(Year)
    ELSE IF script = "y2025" THEN Y2025Frame
    ELSE IF script = "ckan" THEN TransformData(ReadCsv(latest[1].url))
    ELSE (IF "db" \in attempted THEN RentPdfFrame ELSE {})
            \cup (IF "est_db" \in attempted THEN EstimatorFrame ELSE {})

\* C7: a relational write of records the table already holds from an earlier
\* identical write leaves exactly one copy of each record, in every script.
C7_SecondWriteKeepsOneCopy ==
    (RunEnded /\ dbOk = "true"
        /\ \A r \in WrittenFrame : CopiesIn(r, pre.rents) >= 1)
        => \A r \in WrittenFrame : CopiesIn(r, rents) = 1

\* C8: run_full_pipeline returns True only if this run's save_to_database
\* returned True.
C8_SuccessOnlyIfStored ==
    (RunEnded /\ ret = "true") => dbOk = "true"

Destinations(s) ==
    IF s \in {"future", "y2025"} THEN {"csv", "json", "db"} ELSE {"csv", "db"}

PassedExtraction == failed \cap {"discovery", "fetch", "extract"} = {}

\* C9: a run whose discovery, fetch and extraction succeeded has called the
\* save method of every destination by the time it ends, whatever the
\* outcome of each write.
C9_AllDestinationsAttempted ==
    (RunEnded /\ PassedExtraction) => Destinations(script) \subseteq attempted

\* C9 witness: a 'future' run whose CSV write failed still wrote the JSON
\* file and the table
C9_Witness ==
    /\ FutureRunEnded
    /\ PassedExtraction
    /\ YearCsv(Year) \notin files
    /\ YearJson(Year) \in files
    /\ dbOk = "true"

\* C10: the process exits with 1 when discovery, fetch, extraction or the
\* relational write failed, and with 0 when no stage failed.
C10_ExitCodeReflectsOutcome ==
    RunEnded =>
        /\ (failed \cap {"discovery", "fetch", "extract", "db"} # {} => exitCode = 1)
        /\ (failed = {} => exitCode = 0)

\* C11: once the artifact fetch of a run has failed the run is over with
\* exit code 1, no destination's save method has been called in it, and the
\* table and the marker are as they were when the run started.
C11_FetchFailureAborts ==
    ("fetch" \in failed) =>
        /\ pc = "idle"
        /\ exitCode = 1
        /\ attempted = {}
        /\ rents = pre.rents
        /\ marker = pre.marker

\* C12: once discovery has yielded no candidate the run is over, it has
\* returned False (discovery itself raised nothing), and the marker, the
\* flat files and the rents table are what they were when the run started.
C12_NoCandidateChangesNothing ==
    ("discovery" \in failed) =>
        /\ pc = "idle"
        /\ ret = "false"
        /\ marker = pre.marker
        /\ files = pre.files
        /\ rents = pre.rents

\* C13: in the 'future' pipeline, once save_to_database has been called the
\* rents table is either the table the run found or that table with the
\* 'BHA % Payment Standards' rows replaced by the rows of this run, whatever
\* the outcome of the call.
C13_ReplaceIsAtomic ==
    (script = "future" /\ "db" \in attempted) =>
        \/ rents = pre.rents
        \/ rents = ToSql(DeleteBHA(pre.rents), FutureFrame(Year))

\* C14: when a 'future' process was killed after its save_to_database had
\* succeeded and before the marker write, and the next run selects the same
\* candidate and no stage of it fails, then after that run the rents table
\* is the table the killed process left (the table of an uninterrupted run),
\* each row of the candidate is in it exactly once, and the marker holds the
\* candidate's year.
C14_RerunAfterCrash ==
    (FutureRunEnded /\ failed = {} /\ pre.interrupted # <<>> /\ latest = pre.interrupted) =>
        /\ rents = pre.rents
        /\ \A row \in FutureFrame(Year) : CopiesIn(row, rents) = 1
        /\ marker = [exists |-> TRUE, text |-> Str(Year)]

\* C14 witness: such a second run has ended, on a marker the killed process
\* had left behind the candidate
C14_Witness ==
    /\ FutureRunEnded
    /\ failed = {}
    /\ ret = "true"
    /\ pre.interrupted # <<>>
    /\ latest = pre.interrupted
    /\ pre.marker = NoMarker
    /\ Year = 2025
    /\ CopiesIn([source |-> YearLabel(2025), zip_code |-> "02108"], rents) = 1

\* the records a process ingests
RunRecords(p) ==
    IF proc[p].latest = <<>> THEN {} ELSE FutureFrame(proc[p].latest[1].year)

\* the DELETE of one process ran between the DELETE and the INSERT of the other
Interleaved == \E p \in Procs : proc[p].interleaved

\* C15: when the delete and insert steps of two concurrent 'future' runs are
\* interleaved, every 'BHA % Payment Standards' row of the table is a record
\* of one of the two runs and is there at most twice, and every record of a
\* run whose insert completed is in the table.
C15_InterleavingOnlyDuplicates ==
    Interleaved =>
        /\ \A row \in BagToSet(rents) :
              LikeBHAPaymentStandards(row.source) =>
                  /\ \E p \in Procs : row \in RunRecords(p)
                  /\ CopiesIn(row, rents) <= Cardinality(Procs)
        /\ \A p \in Procs :
              proc[p].dbOk = "true" =>
                  \A row \in RunRecords(p) : CopiesIn(row, rents) >= 1

\* C15 witness: both runs ended after interleaved writes of the same
\* candidate year on a table with older rows, and each record is there twice
C15_Witness ==
    /\ Interleaved
    /\ \A p \in Procs : proc[p].pc = "done" /\ proc[p].dbOk = "true"
    /\ pre.rents # EmptyBag
    /\ proc["a"].latest[1].year = 2025
    /\ \A row \in FutureFrame(2025) : CopiesIn(row, rents) = 2

\* a page that links to the 2024 and the 2025 Payment-Standards documents,
\* served with a 2xx status
Page2024And2025 ==
    /\ http
    /\ page = <<[dir |-> 0, file |-> 2024], [dir |-> 0, file |-> 2025]>>

\* C16: with no marker and a page linking to the 2024 and the 2025
\* documents, discovery finds two candidates with years 2024 and 2025,
\* find_latest_payment_standards returns the 2025 one, check_for_updates
\* returns True, the run selects 2025, and after a run in which no stage
\* failed the marker holds 2025.
C16_EndToEnd ==
    Page2024And2025 =>
        /\ YearKey(AvailableFiles(page)) = <<2024, 2025>>
        /\ found # <<>> => found[1].year = 2025
        /\ (updates # "none" /\ runs = 0) => updates = "true"
        /\ (script = "future" /\ latest # <<>>) => Year = 2025
        /\ (FutureRunEnded /\ failed = {}) => marker = [exists |-> TRUE, text |-> "2025"]

\* C16 witness: the scenario has run to its end: the locator and the gate
\* were called, then the run succeeded in every stage
C16_Witness ==
    /\ Page2024And2025
    /\ found # <<>>
    /\ updates = "true"
    /\ pre.marker = NoMarker
    /\ FutureRunEnded
    /\ failed = {}
    /\ ret = "true"
    /\ marker.text = "2025"

\* C17: no row of the rents table is without a postal code: normalization
\* has dropped every such row before the sink.
C17_NoRowWithoutPostalCode ==
    \A row \in BagToSet(rents) : row.zip_code # ""

\* the flat files (CSV, JSON) among the files of data_dir
FlatFiles(fs) == {f \in fs : f.kind \in {"csv", "json"}}

\* the previous run of the catalog script wrote its CSV file; an earlier run
\* of the 'future' script wrote the CSV and JSON files of this run's year
PriorRunWroteFlatFiles ==
    IF script = "ckan" THEN runs > 1 /\ TimestampCsv(runs - 1) \in pre.files
    ELSE IF script = "future" THEN latest # <<>> /\ {YearCsv(Year), YearJson(Year)} \subseteq pre.files
    ELSE FALSE

\* C18: a run that follows a run which wrote the flat files of the same
\* records leaves the set of flat files as it found it: its own flat-file
\* writes overwrite the files of the earlier run.
C18_FlatFilesOverwritten ==
    (RunEnded /\ "csv" \in attempted /\ PriorRunWroteFlatFiles) =>
        FlatFiles(files) = FlatFiles(pre.files)

\* the pipeline stage a position belongs to: locate, fetch, extract, write,
\* mark-done; get_rent_estimator_data produces the estimator's records
StageOf(position) ==
    IF position = "locate" THEN 1
    ELSE IF position = "download" THEN 2
    ELSE IF position \in {"extract", "estimator"} THEN 3
    ELSE IF position = "mark" THEN 5
    ELSE 4

\* the place of a position in the text of run_full_pipeline
ProgramOrder(position) ==
    IF position = "locate" THEN 1
    ELSE IF position = "download" THEN 2
    ELSE IF position = "extract" THEN 3
    ELSE IF position = "save_csv" THEN 4
    ELSE IF position = "save_json" THEN 5
    ELSE IF position = "save_db" THEN 6
    ELSE IF position = "mark" THEN 7
    ELSE IF position = "estimator" THEN 8
    ELSE IF position = "est_csv" THEN 9
    ELSE 10

C20_EveryRunReturnsAndExits ==
    /\ RunEnded =>
          /\ ret \in {"true", "false"}
          /\ exitCode \in {0, 1}
          /\ exitCode = ExitCodeOf(ret)
    /\ pc # "idle" => (ret = "none" /\ ENABLED Next)

\* C20 witness: a 'future' run in which the CSV write, the JSON write, the
\* relational write and the marker write all failed has returned False and
\* exited with 1
C20_Witness ==
    /\ FutureRunEnded
    /\ {"db", "marker"} \subseteq failed
    /\ Destinations(script) \subseteq attempted
    /\ YearCsv(Year) \notin files
    /\ YearJson(Year) \notin files
    /\ ret = "false"
    /\ exitCode = 1

\* a resource of the expected document type, in either spelling of the format
IsCsv(resource) == resource.format \in {"CSV", "csv"}

CsvIndexes(resources) == {i \in 1..Len(resources) : IsCsv(resources[i])}

\* C21: get_latest_csv_url returns the url of a CSV resource whose 'created'
\* is the greatest among the CSV resources of the answer, whatever the other
\* resources are; it returns no url when the request failed, when the API
\* answered success=false, when the resource list is empty and when no
\* resource is a CSV.
C21_LatestCsvResource ==
    latest_csv # "unset" =>
        IF response.http /\ response.success /\ CsvIndexes(response.resources) # {}
        THEN \E i \in CsvIndexes(response.resources) :
                /\ \A j \in CsvIndexes(response.resources) :
                      response.resources[j].created <= response.resources[i].created
                /\ latest_csv = response.resources[i].url
        ELSE latest_csv = ""

\* C21 witness: the answer lists a newer PDF before an older CSV, and the
\* url of the CSV is returned
C21_Witness ==
    /\ response.http /\ response.success
    /\ response.resources = <<[format |-> "PDF", created |-> 2, url |-> "a.csv"],
                              [format |-> "csv", created |-> 1, url |-> "b.csv"]>>
    /\ latest_csv = "b.csv"

\* C22: in runs of the 'future' pipeline one after the other, on a table the
\* other scripts may have written to before, once the
\* save_to_database of the current run has succeeded every row of the rents
\* table whose source is LIKE 'BHA % Payment Standards' carries the label of
\* this run's candidate year: the rows of every other year are gone.
C22_SingleYearAfterWrite ==
    (script = "future" /\ dbOk = "true") =>
        \A row \in BagToSet(rents) :
            LikeBHAPaymentStandards(row.source) => row.source = YearLabel(Year)

\* C22 witness: a run that found the rows of 2024 in the table has written
\* the candidate of 2025 and ended
C22_Witness ==
    /\ FutureRunEnded
    /\ dbOk = "true"
    /\ Year = 2025
    /\ \A row \in FutureFrame(2024) : CopiesIn(row, pre.rents) = 1
    /\ \A row \in FutureFrame(2024) : CopiesIn(row, rents) = 0
    /\ \A row \in FutureFrame(2025) : CopiesIn(row, rents) = 1

\* the rows of a table whose source is not LIKE 'BHA % Payment Standards'
OtherRows(table) ==
    [r \in {x \in DOMAIN table : ~LikeBHAPaymentStandards(x.source)} |-> table[r]]

C24_GateReadsOnlyAndFailsClosed ==
    updates # "none" =>
        /\ updates \in {"true", "false"}
        /\ marker = pre.marker
        /\ files = pre.files
        /\ rents = pre.rents
        /\ FindLatestPaymentStandards(http, page) = <<>> => updates = "false"
        /\ (marker.exists /\ ~IsInt(marker.text)) => updates = "false"

\* C24 witness: the page offers a candidate, the marker file exists but is
\* empty, and check_for_updates has returned False
C24_Witness ==
    /\ updates = "false"
    /\ FindLatestPaymentStandards(http, page) # <<>>
    /\ marker = [exists |-> TRUE, text |-> ""]

====
